---- MODULE Spec2Model ----
(***************************************************************************)
(* Model of check_links.py: the link checker of AmeriDocs.                 *)
(*                                                                         *)
(* check_all_links (the coordinator) creates one task per key of link_map; *)
(* every task runs check_one_url (the probe): HEAD, then GET, repeated up  *)
(* to 1 + retries times, all inside one "async with semaphore".  The       *)
(* coordinator awaits the tasks in dictionary order and fans every failing *)
(* outcome out into one row per referencing page; main sorts the rows and  *)
(* derives the exit code.                                                  *)
(*                                                                         *)
(* Pages and urls are numbered by their rank in Python's string order, so  *)
(* that comparing numbers is comparing the strings.                        *)
(***************************************************************************)
EXTENDS Integers, Sequences, FiniteSets, TLC

\* ---------------------------------------------------------------- bounds
NTargets == 2          \* urls 1..NTargets may occur in the pages
NPages == 2            \* pages 1..NPages
CONCURRENCY == 1       \* permits of the semaphore (20 in the source), scaled down
MaxRetries == 2        \* retries of an isolated probe range over 0..MaxRetries
MaxRefs == 3           \* hrefs in all the pages of an aggregation

\* ------------------------------------------------------- program constants
RETRY_COUNT == 1

Targets == 1..NTargets
Pages == 1..NPages

\* Python's None as a status: no HTTP status code is negative.  NA is the "N/A"
\* a row shows in its place.
None == 0 - 1
NA == 0 - 2
NoExc == "NoExc"

\* ------------------------------------------------------ request results
\* What one request (session.head / session.get) can end in: a response with a
\* status code and the server's reason phrase ("" when it sends none), or an
\* exception of one of the classes the handlers name.
Response(code, phrase) == [exc |-> NoExc, status |-> code, reason |-> phrase]
Failure(cls) == [exc |-> cls, status |-> None, reason |-> ""]
NoResult == [exc |-> NoExc, status |-> None, reason |-> ""]

Codes == {200, 399, 400, 404, 405, 500}
ServerReasons == {"", "OK", "Custom"}
ExcKinds == {"TimeoutError", "ServerTimeoutError", "ClientConnectorError",
             "ClientError", "OSError"}

\* every result an isolated probe is exercised with
ProbeResults == {Response(c, p) : c \in Codes, p \in ServerReasons}
                  \cup {Failure(e) : e \in ExcKinds}
\* the results the probes of a whole run are exercised with
RunResults == {Response(200, "OK"), Response(500, ""), Failure("TimeoutError")}

\* The classes an exception of kind e is an instance of (aiohttp's hierarchy:
\* ServerTimeoutError is a ClientError and a TimeoutError, ClientConnectorError
\* is a ClientError and an OSError).
Classes(e) ==
    CASE e = "TimeoutError" -> {"TimeoutError"}
      [] e = "ServerTimeoutError" -> {"ServerTimeoutError", "TimeoutError", "ClientError"}
      [] e = "ClientConnectorError" -> {"ClientConnectorError", "ClientError", "OSError"}
      [] e = "ClientError" -> {"ClientError"}
      [] e = "OSError" -> {"OSError"}

\* str(e) of an exception of kind e
ExcText(e) == "<" \o e \o ">"

\* HeadCaught as it would be with OSError missing from the except clause
HeadCaughtNoOSError(e) == Classes(e) \cap {"ClientError", "TimeoutError"} # {}

\* except (aiohttp.ClientError, asyncio.TimeoutError, OSError): pass
HeadHandled == {"ClientError", "TimeoutError", "OSError"}
HeadCaught(e) == Classes(e) \cap HeadHandled # {}

\* the except clauses after session.get, in source order
GetHandlers == <<"TimeoutError", "ClientConnectorError", "ClientError", "OSError">>

\* index of the first except clause that matches e, 0 when none does
FirstHandler(e) ==
    IF \E i \in 1..Len(GetHandlers) : GetHandlers[i] \in Classes(e)
    THEN CHOOSE i \in 1..Len(GetHandlers) :
            /\ GetHandlers[i] \in Classes(e)
            /\ \A j \in 1..(i - 1) : GetHandlers[j] \notin Classes(e)
    ELSE 0

\* the reason the matching except clause returns once no attempt is left
FailReason(e) ==
    CASE FirstHandler(e) = 1 -> "Timeout"
      [] FirstHandler(e) = 2 -> "Connection failed"
      [] FirstHandler(e) = 3 -> "Client error: " \o ExcText(e)
      [] FirstHandler(e) = 4 -> "OS error: " \o ExcText(e)

\* x or y of Python, for strings
Or(x, y) == IF x = "" THEN y ELSE x

\* return resp.status, resp.reason or "Error"      (HEAD, status >= 400, not 405)
HeadErrorOutcome(r) == <<r.status, Or(r.reason, "Error")>>

\* return resp.status, resp.reason or ("OK" if resp.status < 400 else "Error")
GetOutcome(r) == <<r.status, Or(r.reason, IF r.status < 400 THEN "OK" ELSE "Error")>>

\* IsFailure as it would be without the test for None
IsFailureNoNone(status) == status >= 400

\* if status is None or status >= 400
IsFailure(status) == status = None \/ status >= 400

VARIABLES
    work,       \* main's input: the (page, href) pairs in the order it reads them
    pos,        \* how many of them main has read
    retries,    \* the retries argument of check_one_url
    link_map,   \* url -> set of pages that reference it
    urls,       \* list(link_map.keys()): the dictionary's insertion order
    sem,        \* the semaphore's value: permits available
    pc,         \* per url, where its task stands
    frame,      \* per url, the frame of its running check_one_url call
    last,       \* per url, the result of its request that ended last
    outcome,    \* per url, the (status, reason) its task returned
    nAcq,       \* per url, acquisitions of the semaphore
    nRel,       \* per url, releases of the semaphore
    cpc,        \* where the coordinator (and then main) stands
    idx,        \* position of the coordinator's loop in urls
    done,       \* the coordinator's counter of awaited tasks
    results,    \* the list of rows
    exitCode    \* what main returns

probeVars == <<sem, pc, frame, last, outcome, nAcq, nRel>>
coordVars == <<cpc, idx, done, results, exitCode>>
aggVars == <<work, pos>>
vars == <<aggVars, retries, link_map, urls, probeVars, coordVars>>

\* The frame of a check_one_url call: the loop variable of "for attempt in
\* range(1 + retries)" and, recorded for this call, the HEAD requests, GET
\* requests and asyncio.sleep(2) calls it has issued, the requests it has
\* outstanding (issued, response not yet released) and whether every request
\* that ended so far timed out.  A call that has not started or has ended has
\* no frame: NoFrame.
NoFrame == [attempt |-> 0, heads |-> 0, gets |-> 0, sleeps |-> 0, open |-> 0,
            onlyTimeouts |-> TRUE]

\* r is an exception that is an asyncio.TimeoutError
IsTimeout(r) == r.exc # NoExc /\ "TimeoutError" \in Classes(r.exc)

Keys == DOMAIN link_map
Range(s) == {s[i] : i \in 1..Len(s)}

\* ------------------------------------------------------------ aggregation
\* main, step 2: link_map.setdefault(url, set()).add(fname) for every external
\* link of every page; content[p] is the set of external links of page p.
LinkMapOf(content) ==
    [u \in UNION {content[p] : p \in Pages} |-> {p \in Pages : u \in content[p]}]

\* the first page (in sorted order) that references u
FirstPage(lm, u) == CHOOSE p \in lm[u] : \A q \in lm[u] : p <= q

\* The orders in which the keys can have been inserted: the pages are read in
\* sorted order, the links of one page in any order.
KeyOrders(lm) ==
    {s \in [1..Cardinality(DOMAIN lm) -> DOMAIN lm] :
        /\ \A i, j \in DOMAIN s : i # j => s[i] # s[j]
        /\ \A i, j \in DOMAIN s : i < j => FirstPage(lm, s[i]) <= FirstPage(lm, s[j])}

\* An href as main reads it: a string, here the sequence of its characters.
HttpA == <<"h", "t", "t", "p", ":", "/", "/", "a">>
HttpsB == <<"h", "t", "t", "p", "s", ":", "/", "/", "b">>
Relative == <<"a", ".", "h", "t", "m", "l">>
OneSlash == <<"h", "t", "t", "p", ":", "/", "a">>
NoScheme == <<"/", "/", "a">>
RawRefs == {HttpA, HttpsB, Relative, OneSlash, NoScheme}

\* url.startswith(prefix)
StartsWith(url, prefix) ==
    Len(url) >= Len(prefix) /\ SubSeq(url, 1, Len(prefix)) = prefix

\* is_external as it would be if only http:// counted
is_external_http_only(url) ==
    StartsWith(url, <<"h", "t", "t", "p", ":", "/", "/">>)

\* url.startswith("http://") or url.startswith("https://")
is_external(url) ==
    \/ StartsWith(url, <<"h", "t", "t", "p", ":", "/", "/">>)
    \/ StartsWith(url, <<"h", "t", "t", "p", "s", ":", "/", "/">>)

\* link_map.setdefault(url, set()).add(fname)
SetDefaultAdd(lm, url, fname) ==
    IF url \in DOMAIN lm
    THEN [lm EXCEPT ![url] = @ \cup {fname}]
    ELSE lm @@ (url :> {fname})

\* What main can be given: the pages in sorted order, each with its hrefs in
\* the order of the file, at most MaxRefs hrefs in all.
WorkLists ==
    {w \in UNION {[1..n -> Pages \X RawRefs] : n \in 0..MaxRefs} :
        \A i, j \in DOMAIN w : i < j => w[i][1] <= w[j][1]}

\* main, step 2, for the next href of the next page: hrefs that are not
\* external are filtered out, an external one is entered in link_map
Aggregate ==
    /\ cpc = "aggregate"
    /\ pos < Len(work)
    /\ pos' = pos + 1
    /\ LET fname == work[pos + 1][1]
           url == work[pos + 1][2]
       IN IF is_external(url)
          THEN /\ link_map' = SetDefaultAdd(link_map, url, fname)
               /\ urls' = IF url \in DOMAIN link_map THEN urls ELSE Append(urls, url)
          ELSE UNCHANGED <<link_map, urls>>
    /\ UNCHANGED <<work, retries, probeVars, idx, done, results, exitCode, cpc>>

\* ------------------------------------------------------------------ Init
InitState(lm, order, r) ==
    /\ work = <<>>
    /\ pos = 0
    /\ retries = r
    /\ link_map = lm
    /\ urls = order
    /\ sem = CONCURRENCY
    /\ pc = [u \in DOMAIN lm |-> "none"]
    /\ frame = [u \in DOMAIN lm |-> NoFrame]
    /\ last = [u \in DOMAIN lm |-> NoResult]
    /\ outcome = [u \in DOMAIN lm |-> <<None, "">>]
    /\ nAcq = [u \in DOMAIN lm |-> 0]
    /\ nRel = [u \in DOMAIN lm |-> 0]
    /\ cpc = "launch"
    /\ idx = 1
    /\ done = 0
    /\ results = <<>>
    /\ exitCode = None

\* a whole run: any pages, check_one_url called with its default retries
Init ==
    \E content \in [Pages -> SUBSET Targets] :
        \E order \in KeyOrders(LinkMapOf(content)) :
            InitState(LinkMapOf(content), order, RETRY_COUNT)

\* one probe on its own: one page with one link, any retries
InitProbe ==
    \E r \in 0..MaxRetries :
        InitState((1 :> {1}), <<1>>, r)

\* main before step 2: link_map = {}, any pages
InitAgg ==
    \E w \in WorkLists :
        /\ work = w
        /\ pos = 0
        /\ retries = RETRY_COUNT
        /\ link_map = <<>>
        /\ urls = <<>>
        /\ sem = CONCURRENCY
        /\ pc = <<>> /\ frame = <<>> /\ last = <<>> /\ outcome = <<>>
        /\ nAcq = <<>> /\ nRel = <<>>
        /\ cpc = "aggregate"
        /\ idx = 1
        /\ done = 0
        /\ results = <<>>
        /\ exitCode = None

\* ----------------------------------------------------------------- probe
otherVars == <<aggVars, retries, link_map, urls, coordVars>>

\* Acquire as it would be without waiting for a permit
AcquireNoWait(u) ==
    /\ pc[u] = "start"
    /\ sem' = sem - 1
    /\ nAcq' = [nAcq EXCEPT ![u] = @ + 1]
    /\ frame' = [frame EXCEPT ![u] = [NoFrame EXCEPT !.heads = 1, !.open = 1]]
    /\ pc' = [pc EXCEPT ![u] = "head"]
    /\ UNCHANGED <<last, outcome, nRel>>
    /\ UNCHANGED otherVars

\* "async with semaphore" entered: the permit is taken and, with no await in
\* between, the loop starts and the first HEAD request is issued.
Acquire(u) ==
    /\ pc[u] = "start"
    /\ sem > 0
    /\ sem' = sem - 1
    /\ nAcq' = [nAcq EXCEPT ![u] = @ + 1]
    /\ frame' = [frame EXCEPT ![u] = [NoFrame EXCEPT !.heads = 1, !.open = 1]]
    /\ pc' = [pc EXCEPT ![u] = "head"]
    /\ UNCHANGED <<last, outcome, nRel>>
    /\ UNCHANGED otherVars

\* Return as it would be if the permit were not released
ReturnKeepPermit(u, o) ==
    /\ pc' = [pc EXCEPT ![u] = "done"]
    /\ outcome' = [outcome EXCEPT ![u] = o]
    /\ frame' = [frame EXCEPT ![u] = NoFrame]
    /\ UNCHANGED <<sem, nRel>>

\* a return statement inside "async with semaphore": the outcome becomes the
\* task's result, the permit is released on the way out, the frame is gone
Return(u, o) ==
    /\ pc' = [pc EXCEPT ![u] = "done"]
    /\ outcome' = [outcome EXCEPT ![u] = o]
    /\ frame' = [frame EXCEPT ![u] = NoFrame]
    /\ sem' = sem + 1
    /\ nRel' = [nRel EXCEPT ![u] = @ + 1]

\* an exception no except clause matches leaves "async with semaphore", which
\* releases the permit, and becomes the task's exception
Raise(u) ==
    /\ pc' = [pc EXCEPT ![u] = "raised"]
    /\ frame' = [frame EXCEPT ![u] = NoFrame]
    /\ sem' = sem + 1
    /\ nRel' = [nRel EXCEPT ![u] = @ + 1]
    /\ UNCHANGED outcome

\* IssueGet as it would be if the fallback counted as the next attempt
IssueGetAsRetry(u, r) ==
    /\ pc' = [pc EXCEPT ![u] = "get"]
    /\ frame' = [frame EXCEPT ![u].gets = @ + 1, ![u].attempt = @ + 1,
                              ![u].open = (@ - 1) + 1,
                              ![u].onlyTimeouts = @ /\ IsTimeout(r)]
    /\ UNCHANGED <<outcome, sem, nRel>>

\* IssueGet as it would be if session.get were called inside the block of
\* "async with session.head(...) as resp"
IssueGetNested(u, r) ==
    /\ pc' = [pc EXCEPT ![u] = "get"]
    /\ frame' = [frame EXCEPT ![u].gets = @ + 1,
                              ![u].open = @ + 1,
                              ![u].onlyTimeouts = @ /\ IsTimeout(r)]
    /\ UNCHANGED <<outcome, sem, nRel>>

\* the exception has left "async with session.head(...) as resp", which
\* releases the HEAD response, and the except clause falls through:
\* session.get is called, in the same iteration of the loop
IssueGet(u, r) ==
    /\ pc' = [pc EXCEPT ![u] = "get"]
    /\ frame' = [frame EXCEPT ![u].gets = @ + 1,
                              ![u].open = (@ - 1) + 1,
                              ![u].onlyTimeouts = @ /\ IsTimeout(r)]
    /\ UNCHANGED <<outcome, sem, nRel>>

\* HeadDone as it would be if a failed HEAD request ended the probe
HeadDoneFailFast(u, r) ==
    /\ pc[u] = "head"
    /\ last' = [last EXCEPT ![u] = r]
    /\ IF r.exc = NoExc
       THEN IF r.status < 400
            THEN Return(u, <<r.status, "OK">>)
            ELSE IF r.status = 405
                 THEN IssueGet(u, r)
                 ELSE Return(u, HeadErrorOutcome(r))
       ELSE Return(u, <<None, FailReason(r.exc)>>)
    /\ UNCHANGED nAcq
    /\ UNCHANGED otherVars

\* HeadDone as it would be if every status >= 400 fell through to GET
HeadDoneFallThrough(u, r) ==
    /\ pc[u] = "head"
    /\ last' = [last EXCEPT ![u] = r]
    /\ IF r.exc = NoExc
       THEN IF r.status < 400
            THEN Return(u, <<r.status, "OK">>)
            ELSE IssueGet(u, r)
       ELSE IF HeadCaught(r.exc)
            THEN IssueGet(u, r)
            ELSE Raise(u)
    /\ UNCHANGED nAcq
    /\ UNCHANGED otherVars

\* the HEAD request of u ends in r
HeadDone(u, r) ==
    /\ pc[u] = "head"
    /\ last' = [last EXCEPT ![u] = r]
    /\ IF r.exc = NoExc
       THEN IF r.status < 400
            THEN Return(u, <<r.status, "OK">>)
            ELSE IF r.status = 405
                 THEN IssueGet(u, r)    \* raise ClientError, caught right below
                 ELSE Return(u, HeadErrorOutcome(r))
       ELSE IF HeadCaught(r.exc)
            THEN IssueGet(u, r)
            ELSE Raise(u)
    /\ UNCHANGED nAcq
    /\ UNCHANGED otherVars

\* Backoff as it would be if the permit were given back for the sleep
BackoffReleasing(u, r) ==
    /\ pc' = [pc EXCEPT ![u] = "sleep"]
    /\ frame' = [frame EXCEPT ![u].sleeps = @ + 1,
                              ![u].open = @ - 1,
                              ![u].onlyTimeouts = @ /\ IsTimeout(r)]
    /\ sem' = sem + 1
    /\ nRel' = [nRel EXCEPT ![u] = @ + 1]
    /\ UNCHANGED outcome

\* if attempt < retries: await asyncio.sleep(2); continue
Backoff(u, r) ==
    /\ pc' = [pc EXCEPT ![u] = "sleep"]
    /\ frame' = [frame EXCEPT ![u].sleeps = @ + 1,
                              ![u].open = @ - 1,
                              ![u].onlyTimeouts = @ /\ IsTimeout(r)]
    /\ UNCHANGED <<outcome, sem, nRel>>

\* GetDone as it would be if the reason named the failure of the HEAD request
GetDoneStaleReason(u, r) ==
    /\ pc[u] = "get"
    /\ last' = [last EXCEPT ![u] = r]
    /\ IF r.exc = NoExc
       THEN Return(u, GetOutcome(r))
       ELSE IF FirstHandler(r.exc) = 0
            THEN Raise(u)
            ELSE IF frame[u].attempt < retries
                 THEN Backoff(u, r)
                 ELSE Return(u, <<None, FailReason(IF last[u].exc # NoExc
                                                   THEN last[u].exc ELSE r.exc)>>)
    /\ UNCHANGED nAcq
    /\ UNCHANGED otherVars

\* GetDone as it would be if the last attempt slept too
GetDoneOffByOne(u, r) ==
    /\ pc[u] = "get"
    /\ last' = [last EXCEPT ![u] = r]
    /\ IF r.exc = NoExc
       THEN Return(u, GetOutcome(r))
       ELSE IF FirstHandler(r.exc) = 0
            THEN Raise(u)
            ELSE IF frame[u].attempt <= retries
                 THEN Backoff(u, r)
                 ELSE Return(u, <<None, FailReason(r.exc)>>)
    /\ UNCHANGED nAcq
    /\ UNCHANGED otherVars

\* GetDone as it would be without the retry
GetDoneNoRetry(u, r) ==
    /\ pc[u] = "get"
    /\ last' = [last EXCEPT ![u] = r]
    /\ IF r.exc = NoExc
       THEN Return(u, GetOutcome(r))
       ELSE IF FirstHandler(r.exc) = 0
            THEN Raise(u)
            ELSE Return(u, <<None, FailReason(r.exc)>>)
    /\ UNCHANGED nAcq
    /\ UNCHANGED otherVars

\* the GET request of u ends in r
GetDone(u, r) ==
    /\ pc[u] = "get"
    /\ last' = [last EXCEPT ![u] = r]
    /\ IF r.exc = NoExc
       THEN Return(u, GetOutcome(r))
       ELSE IF FirstHandler(r.exc) = 0
            THEN Raise(u)
            ELSE IF frame[u].attempt < retries
                 THEN Backoff(u, r)
                 ELSE Return(u, <<None, FailReason(r.exc)>>)
    /\ UNCHANGED nAcq
    /\ UNCHANGED otherVars

\* Wake as it would be if the next attempt went straight to the GET request
WakeSkipHead(u) ==
    /\ pc[u] = "sleep"
    /\ IF frame[u].attempt + 1 < 1 + retries
       THEN /\ pc' = [pc EXCEPT ![u] = "get"]
            /\ frame' = [frame EXCEPT ![u].attempt = @ + 1, ![u].gets = @ + 1,
                                      ![u].open = @ + 1]
            /\ UNCHANGED <<outcome, sem, nRel>>
       ELSE Return(u, <<None, "Unknown error">>)
    /\ UNCHANGED <<last, nAcq>>
    /\ UNCHANGED otherVars

\* the sleep is over: the next iteration of the for loop issues its HEAD
\* request; when range(1 + retries) is exhausted the statement after the loop
\* returns
Wake(u) ==
    /\ pc[u] = "sleep"
    /\ IF frame[u].attempt + 1 < 1 + retries
       THEN /\ pc' = [pc EXCEPT ![u] = "head"]
            /\ frame' = [frame EXCEPT ![u].attempt = @ + 1, ![u].heads = @ + 1,
                                      ![u].open = @ + 1]
            /\ UNCHANGED <<outcome, sem, nRel>>
       ELSE Return(u, <<None, "Unknown error">>)
    /\ UNCHANGED <<last, nAcq>>
    /\ UNCHANGED otherVars

\* ----------------------------------------------------------- coordinator
\* tasks = {url: asyncio.ensure_future(check_one_url(...)) for url in urls}
Launch ==
    /\ cpc = "launch"
    /\ pc' = [u \in Keys |-> "start"]
    /\ cpc' = "await"
    /\ UNCHANGED <<work, pos, retries, link_map, urls, idx, done, results, exitCode>>
    /\ UNCHANGED <<sem, frame, last, outcome, nAcq, nRel>>

\* sorted(link_map[url]) as a sequence
RECURSIVE SortedSeq(_)
SortedSeq(S) ==
    IF S = {} THEN <<>>
    ELSE LET m == CHOOSE x \in S : \A y \in S : x <= y
         IN <<m>> \o SortedSeq(S \ {m})

\* the row appended for page p
Row(p, u, o) ==
    [page |-> p, url |-> u,
     status |-> IF o[1] # None THEN o[1] ELSE NA,
     reason |-> o[2]]

\* FanOut as it would be with one row per url instead of one per page
FanOutOnce(u, o) == <<Row(FirstPage(link_map, u), u, o)>>

\* for page in sorted(link_map[url]): results.append({...})
FanOut(u, o) ==
    LET ps == SortedSeq(link_map[u])
    IN [i \in 1..Len(ps) |-> Row(ps[i], u, o)]

\* Await as it would be if the rows of a url replaced the rows before them
AwaitReplace ==
    /\ cpc = "await"
    /\ idx <= Len(urls)
    /\ pc[urls[idx]] \in {"done", "raised"}
    /\ IF pc[urls[idx]] = "done"
       THEN /\ done' = done + 1
            /\ results' = IF IsFailure(outcome[urls[idx]][1])
                          THEN FanOut(urls[idx], outcome[urls[idx]])
                          ELSE results
            /\ idx' = idx + 1
            /\ cpc' = cpc
       ELSE /\ cpc' = "crashed"
            /\ UNCHANGED <<idx, done, results>>
    /\ UNCHANGED <<work, pos, retries, link_map, urls, probeVars, exitCode>>

\* Await as it would be if a failing outcome ended the loop
AwaitAbortOnFailure ==
    /\ cpc = "await"
    /\ idx <= Len(urls)
    /\ pc[urls[idx]] \in {"done", "raised"}
    /\ IF pc[urls[idx]] = "done"
       THEN /\ done' = done + 1
            /\ results' = IF IsFailure(outcome[urls[idx]][1])
                          THEN results \o FanOut(urls[idx], outcome[urls[idx]])
                          ELSE results
            /\ idx' = idx + 1
            /\ cpc' = IF IsFailure(outcome[urls[idx]][1]) THEN "returned" ELSE cpc
       ELSE /\ cpc' = "crashed"
            /\ UNCHANGED <<idx, done, results>>
    /\ UNCHANGED <<work, pos, retries, link_map, urls, probeVars, exitCode>>

\* status, reason = await task, for the task of urls[idx]: the loop body when
\* the task returned; when it raised, the exception leaves check_all_links
Await ==
    /\ cpc = "await"
    /\ idx <= Len(urls)
    /\ pc[urls[idx]] \in {"done", "raised"}
    /\ IF pc[urls[idx]] = "done"
       THEN /\ done' = done + 1
            /\ results' = IF IsFailure(outcome[urls[idx]][1])
                          THEN results \o FanOut(urls[idx], outcome[urls[idx]])
                          ELSE results
            /\ idx' = idx + 1
            /\ cpc' = cpc
       ELSE /\ cpc' = "crashed"
            /\ UNCHANGED <<idx, done, results>>
    /\ UNCHANGED <<work, pos, retries, link_map, urls, probeVars, exitCode>>

\* the loop is over: return results
Finish ==
    /\ cpc = "await"
    /\ idx > Len(urls)
    /\ cpc' = "returned"
    /\ UNCHANGED <<work, pos, retries, link_map, urls, probeVars, idx, done, results, exitCode>>

\* key=lambda r: (r["page"], r["url"])
KeyLeq(a, b) == a.page < b.page \/ (a.page = b.page /\ a.url <= b.url)

\* list.sort: stable insertion of the rows by key
RECURSIVE InsertRow(_, _)
InsertRow(s, r) ==
    IF s = <<>> THEN <<r>>
    ELSE IF KeyLeq(s[Len(s)], r) THEN Append(s, r)
         ELSE Append(InsertRow(SubSeq(s, 1, Len(s) - 1), r), s[Len(s)])

\* SortRows as it would be without sorting
KeepOrder(s) == s

RECURSIVE SortRows(_)
SortRows(s) ==
    IF s = <<>> THEN <<>>
    ELSE InsertRow(SortRows(SubSeq(s, 1, Len(s) - 1)), s[Len(s)])

\* Report as it would be if main returned 0 whatever the rows
ReportAlwaysZero ==
    /\ cpc = "returned"
    /\ results' = SortRows(results)
    /\ exitCode' = 0
    /\ cpc' = "exited"
    /\ UNCHANGED <<work, pos, retries, link_map, urls, probeVars, idx, done>>

\* main, steps 4 and 5: results.sort(...); return 0 if not results else 1
Report ==
    /\ cpc = "returned"
    /\ results' = SortRows(results)
    /\ exitCode' = IF results = <<>> THEN 0 ELSE 1
    /\ cpc' = "exited"
    /\ UNCHANGED <<work, pos, retries, link_map, urls, probeVars, idx, done>>

\* ------------------------------------------------------------------ Next
Next ==
    \/ Launch
    \/ \E u \in Keys : Acquire(u)
    \/ \E u \in Keys, r \in RunResults : HeadDone(u, r)
    \/ \E u \in Keys, r \in RunResults : GetDone(u, r)
    \/ \E u \in Keys : Wake(u)
    \/ Await
    \/ Finish
    \/ Report

NextProbe ==
    \/ Launch
    \/ \E u \in Keys : Acquire(u)
    \/ \E u \in Keys, r \in ProbeResults : HeadDone(u, r)
    \/ \E u \in Keys, r \in ProbeResults : GetDone(u, r)
    \/ \E u \in Keys : Wake(u)
    \/ Await
    \/ Finish
    \/ Report

Spec == Init /\ [][Next]_vars

SpecProbe == InitProbe /\ [][NextProbe]_vars

\* A run in which the event loop keeps running what is ready and every
\* request issued ends, in a response or in a failure.
\* The pages play no part in it: one page holds every link.
InitLive ==
    \E S \in SUBSET Targets :
        \E order \in KeyOrders([u \in S |-> {1}]) :
            InitState([u \in S |-> {1}], order, RETRY_COUNT)

LiveSpec == InitLive /\ [][Next]_vars /\ WF_vars(Next)

\* the aggregation of main on its own
NextAgg == Aggregate

SpecAgg == InitAgg /\ [][NextAgg]_vars


\* ================================================================ claims
InFlight == {u \in Keys : pc[u] \in {"head", "get", "sleep"}}
RowsOf(u) == {i \in 1..Len(results) : results[i].url = u}
RunOver == cpc \in {"returned", "exited"}

\* C1: in every reachable state of a run, the probes in flight (permit taken,
\* outcome not yet returned) number at most CONCURRENCY.
C1_ConcurrencyCap == Cardinality(InFlight) <= CONCURRENCY

\* C1 witness: every permit is taken while another task waits for one
C1_Witness ==
    /\ Cardinality(InFlight) = CONCURRENCY
    /\ \E u \in Keys : pc[u] = "start"

\* C2: a url that K pages reference is probed exactly once, and when the run
\* is over the result list holds K rows for it if its one outcome is a failure
\* and none otherwise.
C2_Deduplication ==
    /\ \A u \in Keys : nAcq[u] <= 1
    /\ RunOver =>
         \A u \in Keys :
            /\ nAcq[u] = 1
            /\ Cardinality(RowsOf(u)) =
                 IF outcome[u][1] = None \/ outcome[u][1] >= 400
                 THEN Cardinality(link_map[u]) ELSE 0

\* C2 witness: a run is over in which two pages reference a url that failed
C2_Witness ==
    /\ RunOver
    /\ \E u \in Keys :
          /\ Cardinality(link_map[u]) = 2
          /\ outcome[u][1] = 500
          /\ Cardinality(RowsOf(u)) = 2


\* a step in which the HEAD (GET) request of u ends; last'[u] is its result
HeadEnds(u) == pc[u] = "head" /\ pc'[u] # "head"
GetEnds(u) == pc[u] = "get" /\ pc'[u] # "get"
IsResponse(r) == r.exc = NoExc /\ r.status # None

\* C3: a probe whose every request times out makes exactly 1 + retries
\* attempts, each a HEAD request followed by a GET request, and then returns
\* (None, "Timeout").
C3_RetryBound ==
    [][\A u \in Keys :
        /\ (HeadEnds(u) /\ frame[u].onlyTimeouts /\ IsTimeout(last'[u]))
              => pc'[u] = "get"
        /\ (GetEnds(u) /\ frame[u].onlyTimeouts /\ IsTimeout(last'[u]))
              => /\ frame[u].gets = frame[u].heads
                 /\ pc'[u] \in {"sleep", "done"}
                 /\ pc'[u] = "done" <=> frame[u].heads = 1 + retries
                 /\ pc'[u] = "done" => outcome'[u] = <<None, "Timeout">>
        /\ (pc[u] = "sleep" /\ pc'[u] # "sleep") => pc'[u] = "head"
      ]_vars

\* C3 witness: every request of the probe timed out so far, retries were
\* made, and the GET request of attempt 1 + retries is outstanding
C3_Witness ==
    \E u \in Keys :
        /\ retries >= 1
        /\ pc[u] = "get"
        /\ frame[u].onlyTimeouts
        /\ IsTimeout(last[u])
        /\ frame[u].heads = 1 + retries

AfterHead405(u) == IsResponse(last[u]) /\ last[u].status = 405

C5_SameAttempt(u) ==
    (HeadEnds(u) /\ IsResponse(last'[u]) /\ last'[u].status = 405)
       => /\ pc'[u] = "get"
          /\ frame'[u].attempt = frame[u].attempt
          /\ frame'[u].sleeps = frame[u].sleeps
          /\ frame'[u].heads = frame[u].heads

C5_OneAttempt(u) ==
    frame[u].heads = 1 =>
       (frame[u].attempt = 0 /\ frame[u].gets = 1 /\ frame[u].sleeps = 0)

\* C5 as claimed: a 405 on HEAD leads to the GET request of the same attempt,
\* and a 200 on that GET gives the outcome (200, "OK") with one attempt used.
C5_Original ==
    [][\A u \in Keys :
        /\ C5_SameAttempt(u)
        /\ (GetEnds(u) /\ AfterHead405(u) /\ IsResponse(last'[u])
               /\ last'[u].status = 200)
              => /\ pc'[u] = "done"
                 /\ outcome'[u] = <<200, "OK">>
                 /\ C5_OneAttempt(u)
      ]_vars

\* C5 amended: a 405 on HEAD leads to the GET request of the same attempt, and
\* a 200 on that GET gives status 200 with the server's reason phrase, or "OK"
\* when the server sent none, with one attempt used.
C5_Escalation ==
    [][\A u \in Keys :
        /\ C5_SameAttempt(u)
        /\ (GetEnds(u) /\ AfterHead405(u) /\ IsResponse(last'[u])
               /\ last'[u].status = 200)
              => /\ pc'[u] = "done"
                 /\ outcome'[u][1] = 200
                 /\ outcome'[u][2] =
                      (IF last'[u].reason = "" THEN "OK" ELSE last'[u].reason)
                 /\ C5_OneAttempt(u)
      ]_vars

\* C5 witness: the first HEAD request got a 405 and the GET request of the
\* same attempt is outstanding, no sleep in between
C5_Witness ==
    \E u \in Keys :
        /\ pc[u] = "get"
        /\ AfterHead405(u)
        /\ frame[u] = [NoFrame EXCEPT !.heads = 1, !.gets = 1, !.open = 1,
                                   !.onlyTimeouts = FALSE]


\* the coordinator has awaited the task of u
Awaited(u) == \E i \in 1..Len(urls) : urls[i] = u /\ i < idx
HasRow(p, u) == \E i \in 1..Len(results) : results[i].page = p /\ results[i].url = u

\* C6: a row for (page p, url u) is in the result list if and only if p
\* references u and the awaited outcome of u has no status or a status >= 400;
\* every row carries the status and reason of its url's outcome.  When
\* check_all_links has returned every url has been awaited.
C6_FailureRecords ==
    /\ \A p \in Pages, u \in Targets :
          HasRow(p, u) <=>
             /\ u \in Keys
             /\ p \in link_map[u]
             /\ Awaited(u)
             /\ (outcome[u][1] = None \/ outcome[u][1] >= 400)
    /\ \A i \in 1..Len(results) :
          /\ results[i].status =
               (IF outcome[results[i].url][1] = None THEN NA
                ELSE outcome[results[i].url][1])
          /\ results[i].reason = outcome[results[i].url][2]
    /\ RunOver => \A u \in Keys : Awaited(u)

\* C6 witness: the run is over, a url without status has its rows and a url
\* with status 200 has none
C6_Witness ==
    /\ RunOver
    /\ \E u, v \in Keys :
          /\ outcome[u][1] = None /\ RowsOf(u) # {}
          /\ outcome[v][1] = 200 /\ RowsOf(v) = {}

\* C7: a probe takes the permit once, before its first request, holds it
\* through all its attempts and sleeps, and gives it back once when it ends:
\* the permits available are CONCURRENCY less the probes in flight, and a
\* request is outstanding only for a probe that holds a permit.
C7_PermitHeld ==
    /\ sem = CONCURRENCY - Cardinality(InFlight)
    /\ \A u \in Keys :
          /\ pc[u] \in {"none", "start"} => (nAcq[u] = 0 /\ nRel[u] = 0)
          /\ pc[u] \in {"head", "get", "sleep"} => (nAcq[u] = 1 /\ nRel[u] = 0)
          /\ pc[u] \in {"done", "raised"} => (nAcq[u] = 1 /\ nRel[u] = 1)
    /\ InFlight = {} => sem = CONCURRENCY

\* C7 witness: a probe sleeps between two attempts, holding the only permit,
\* while another task waits for it
C7_Witness ==
    \E u, v \in Keys :
        /\ pc[u] = "sleep" /\ nAcq[u] = 1 /\ nRel[u] = 0
        /\ pc[v] = "start"
        /\ sem = 0

FailReasons == {"Timeout", "Connection failed"}
                 \cup {"Client error: " \o ExcText(e) : e \in ExcKinds}
                 \cup {"OS error: " \o ExcText(e) : e \in ExcKinds}

\* C8: check_one_url never raises: whatever its requests end in, the task ends
\* with a returned (status, reason): the status of the response that ended it,
\* or None with a reason naming the failure.
C8_NeverRaises ==
    /\ cpc # "crashed"
    /\ \A u \in Keys :
          /\ pc[u] # "raised"
          /\ pc[u] = "done" =>
               IF IsResponse(last[u])
               THEN outcome[u][1] = last[u].status /\ outcome[u][2] # ""
               ELSE outcome[u][1] = None /\ outcome[u][2] \in FailReasons

\* C8 witness: a probe whose last request ended in an OSError has returned
C8_Witness ==
    \E u \in Keys :
        /\ pc[u] = "done"
        /\ last[u] = Failure("OSError")
        /\ outcome[u] = <<None, "OS error: <OSError>">>

\* the reason returned for an exception of kind e once no attempt is left
ReasonOfFailure(e) ==
    CASE e \in {"TimeoutError", "ServerTimeoutError"} -> "Timeout"
      [] e = "ClientConnectorError" -> "Connection failed"
      [] e = "ClientError" -> "Client error: <ClientError>"
      [] e = "OSError" -> "OS error: <OSError>"

\* What a probe can return when its last request ended in r: for a response,
\* what HEAD makes of it or what GET makes of it; for an exception, None and
\* the reason of its kind.
OwnOutcomes(r) ==
    IF IsResponse(r)
    THEN {<<r.status, IF r.status < 400 THEN "OK"
                      ELSE IF r.reason = "" THEN "Error" ELSE r.reason>>,
          <<r.status, IF r.reason # "" THEN r.reason
                      ELSE IF r.status < 400 THEN "OK" ELSE "Error">>}
    ELSE {<<None, ReasonOfFailure(r.exc)>>}

\* C9: the run never aborts; when it is over every url has been probed and
\* has its outcome; the outcome of a url is determined by the result of that
\* url's own last request.
C9_Isolation ==
    /\ cpc # "crashed"
    /\ RunOver => \A u \in Keys : pc[u] = "done" /\ nAcq[u] = 1
    /\ \A u \in Keys :
          pc[u] = "done" => outcome[u] \in OwnOutcomes(last[u])

\* C9 witness: the run is over, one url timed out and another answered 200
C9_Witness ==
    /\ RunOver
    /\ \E u, v \in Keys :
          /\ pc[u] = "done" /\ outcome[u] = <<None, "Timeout">>
          /\ pc[v] = "done" /\ outcome[v] = <<200, "OK">>

\* the rows a run must report, given link_map and the outcomes
ExpectedRows ==
    {[page |-> p, url |-> u,
      status |-> IF outcome[u][1] = None THEN NA ELSE outcome[u][1],
      reason |-> outcome[u][2]] :
        <<p, u>> \in {x \in Pages \X Keys :
                         /\ x[1] \in link_map[x[2]]
                         /\ (outcome[x[2]][1] = None \/ outcome[x[2]][1] >= 400)}}

\* C10: the reported rows are strictly ascending by (page, url) and are
\* exactly the rows link_map and the outcomes determine, whatever the order
\* in which the probes ended.
C10_SortedReport ==
    cpc = "exited" =>
       /\ \A i, j \in 1..Len(results) :
             i < j => \/ results[i].page < results[j].page
                      \/ /\ results[i].page = results[j].page
                         /\ results[i].url < results[j].url
       /\ Range(results) = ExpectedRows

\* C10 witness: main has sorted rows that were appended out of order: the url
\* awaited first is the greater one and one page references both
C10_Witness ==
    /\ cpc = "exited"
    /\ Len(urls) = 2 /\ urls[1] > urls[2]
    /\ \E p \in Pages : HasRow(p, urls[1]) /\ HasRow(p, urls[2])


\* the scenario of the spec: a.html (page 1) links good, b.html (page 2)
\* links good and bad; "http://bad.example" sorts before "http://good.example",
\* so bad is url 1 and good is url 2
ScenarioMap == (1 :> {2}) @@ (2 :> {1, 2})

\* C12: main returns 0 if and only if there is no row, and 1 otherwise; in the
\* scenario, with good answering 200 and bad answering 500, the report is the
\* one row (b.html, bad, 500) and main returns 1.
C12_ExitSignal ==
    /\ exitCode \in {None, 0, 1}
    /\ exitCode # None <=> cpc = "exited"
    /\ cpc = "exited" => (exitCode = 0 <=> results = <<>>)
    /\ (/\ cpc = "exited"
        /\ link_map = ScenarioMap
        /\ last[2].status = 200
        /\ last[1].status = 500)
          => /\ Len(results) = 1
             /\ results[1].page = 2 /\ results[1].url = 1
             /\ results[1].status = 500
             /\ results[1].reason \in {"Error"} \cup (ServerReasons \ {""})
             /\ exitCode = 1

\* C12 witness: the scenario has run and main has returned 1 with its one row
C12_Witness ==
    /\ cpc = "exited"
    /\ link_map = ScenarioMap
    /\ urls = <<2, 1>>
    /\ outcome[2] = <<200, "OK">>
    /\ outcome[1][1] = 500
    /\ Len(results) = 1
    /\ exitCode = 1


\* the hrefs of RawRefs that start with http:// or https://
ExternalRefs == {<<"h", "t", "t", "p", ":", "/", "/", "a">>,
                 <<"h", "t", "t", "p", "s", ":", "/", "/", "b">>}
\* the (page, href) pairs main has read
Read == {work[i] : i \in 1..pos}

\* C13: the keys of link_map are exactly the hrefs read that start with
\* http:// or https://, each mapped to exactly the pages that contain it, each
\* key once however often it is read; other hrefs give no key and no error;
\* the map depends only on the set of (page, href) pairs read, not on their
\* order.
C13_Aggregation ==
    /\ cpc = "aggregate"
    /\ DOMAIN link_map = {x[2] : x \in {y \in Read : y[2] \in ExternalRefs}}
    /\ \A u \in DOMAIN link_map :
          link_map[u] = {p \in Pages : <<p, u>> \in Read}
    /\ Range(urls) = DOMAIN link_map
    /\ Len(urls) = Cardinality(DOMAIN link_map)

\* C13 witness: main has read all hrefs, among them one external href twice
\* in the same page and one href that is not external
C13_Witness ==
    /\ pos = Len(work)
    /\ \E i, j \in 1..pos : i < j /\ work[i] = work[j] /\ work[i][2] \in ExternalRefs
    /\ \E i \in 1..pos : work[i][2] \notin ExternalRefs
    /\ Cardinality(DOMAIN link_map) = 1


\* the HEAD request of this attempt of u ended in an exception
AfterHeadFailure(u) == last[u].exc # NoExc

\* C14: a HEAD request that ends in a transport failure (timeout, connection
\* failure, other client error, OS error) is followed by the GET request of the
\* same attempt: no sleep, no attempt used, the permit kept; a response to
\* that GET gives the outcome made of the GET response alone.
C14_HeadFailureFallsThrough ==
    [][\A u \in Keys :
        /\ (HeadEnds(u) /\ last'[u].exc \in ExcKinds)
              => /\ pc'[u] = "get"
                 /\ frame'[u].attempt = frame[u].attempt
                 /\ frame'[u].sleeps = frame[u].sleeps
                 /\ frame'[u].heads = frame[u].heads
                 /\ frame'[u].gets = frame[u].gets + 1
                 /\ sem' = sem
        /\ (GetEnds(u) /\ AfterHeadFailure(u) /\ IsResponse(last'[u]))
              => /\ pc'[u] = "done"
                 /\ outcome'[u] =
                      <<last'[u].status,
                        IF last'[u].reason # "" THEN last'[u].reason
                        ELSE IF last'[u].status < 400 THEN "OK" ELSE "Error">>
      ]_vars

\* C14 witness: the GET request of the first attempt is outstanding after the
\* HEAD request ended in an OS error
C14_Witness ==
    \E u \in Keys :
        /\ pc[u] = "get"
        /\ last[u] = Failure("OSError")
        /\ frame[u].attempt = 0 /\ frame[u].heads = 1 /\ frame[u].gets = 1
        /\ frame[u].sleeps = 0


\* the sleep of u ends
SleepEnds(u) == pc[u] = "sleep" /\ pc'[u] # "sleep"

\* what the frame of a probe never exceeds
C15_Budget(f) ==
    /\ f.sleeps <= retries
    /\ f.heads + f.gets <= 2 * (1 + retries)

\* C15: a GET request that ends in a failure is followed, when fewer than
\* 1 + retries attempts have been started, by one sleep with the permit kept
\* and then by the HEAD request of the next attempt, and otherwise by the
\* return of (None, reason) with no sleep; a probe sleeps at most retries times
\* and issues at most 2 * (1 + retries) requests.
C15_RetryCycle ==
    [][\A u \in Keys :
        /\ (GetEnds(u) /\ last'[u].exc \in ExcKinds)
              => IF frame[u].heads < 1 + retries
                 THEN /\ pc'[u] = "sleep"
                      /\ frame'[u].sleeps = frame[u].sleeps + 1
                      /\ frame'[u].attempt = frame[u].attempt
                      /\ frame'[u].heads = frame[u].heads
                      /\ frame'[u].gets = frame[u].gets
                      /\ sem' = sem
                 ELSE /\ pc'[u] = "done"
                      /\ outcome'[u][1] = None
        /\ SleepEnds(u)
              => /\ pc'[u] = "head"
                 /\ frame'[u].attempt = frame[u].attempt + 1
                 /\ frame'[u].heads = frame[u].heads + 1
                 /\ frame'[u].gets = frame[u].gets
                 /\ frame'[u].sleeps = frame[u].sleeps
        /\ C15_Budget(frame[u]) /\ C15_Budget(frame'[u])
      ]_vars

\* C15 witness: the last allowed attempt has started with its HEAD request,
\* after retries sleeps, the latest after a GET request that timed out in an
\* attempt whose HEAD request had not timed out
C15_Witness ==
    \E u \in Keys :
        /\ retries >= 1
        /\ pc[u] = "head"
        /\ last[u] = Failure("TimeoutError")
        /\ ~frame[u].onlyTimeouts
        /\ frame[u].attempt = retries
        /\ frame[u].heads = 1 + retries /\ frame[u].gets = retries
        /\ frame[u].sleeps = retries


\* C16: with retries >= 0 no probe returns (None, "Unknown error"): a probe
\* that sleeps has a next attempt to go to, so the return after the loop is
\* never taken.
C16_UnknownErrorUnreachable ==
    /\ retries >= 0
    /\ \A u \in Keys :
          /\ outcome[u] # <<None, "Unknown error">>
          /\ pc[u] = "sleep" => frame[u].attempt + 1 \in 1..retries

\* C16 witness: with retries the probe has used all its attempts and returned
\* None with the reason of a failure
C16_Witness ==
    \E u \in Keys :
        /\ retries = MaxRetries
        /\ pc[u] = "done"
        /\ outcome[u][1] = None
        /\ outcome[u][2] \in FailReasons
        /\ last[u].exc \in ExcKinds


\* check_all_links is running
Probing == cpc \in {"launch", "await"}

\* C17: while check_all_links runs, link_map and the order of its keys do not
\* change, and results only grows at its end: a step that changes results is a
\* step of the coordinator (no probe moves in it), leaves the rows it had in
\* place, and adds rows only of a url whose probe has returned, with the
\* reason it returned.
C17_AppendOnly ==
    [][Probing =>
        /\ link_map' = link_map
        /\ urls' = urls
        /\ Len(results') >= Len(results)
        /\ SubSeq(results', 1, Len(results)) = results
        /\ results' # results
              => /\ probeVars' = probeVars
                 /\ \A i \in (Len(results) + 1)..Len(results') :
                       /\ results'[i].url \in Keys
                       /\ pc[results'[i].url] = "done"
                       /\ results'[i].page \in link_map[results'[i].url]
                       /\ results'[i].reason = outcome[results'[i].url][2]
      ]_vars

\* C17 witness: check_all_links has appended the rows of one url, two of them,
\* and the probe of another url has not returned yet
C17_Witness ==
    /\ cpc = "await"
    /\ Len(results) >= 2
    /\ \E v \in Keys : pc[v] \in {"start", "head", "get", "sleep"}


\* C18: when every request ends and the event loop runs what is ready, every
\* probe returns an outcome and check_all_links returns, also with more urls
\* than permits: no probe waits for a permit forever and the coordinator,
\* awaiting in launch order, is never stuck.
C18_Termination ==
    <>(/\ RunOver
       /\ \A u \in Keys : pc[u] = "done" /\ outcome[u][2] # "")

\* C18 witness: there are more urls than permits, all permits are taken, and
\* the probe the coordinator awaits is one that waits for a permit
C18_Witness ==
    /\ Cardinality(Keys) > CONCURRENCY
    /\ cpc = "await"
    /\ sem = 0
    /\ idx <= Len(urls)
    /\ pc[urls[idx]] = "start"


\* the probe of u returns an outcome without a status
ReturnsNone(u) == pc[u] # "done" /\ pc'[u] = "done" /\ outcome'[u][1] = None

\* C19: a probe returns None for the status only when the GET request of its
\* attempt number 1 + retries ends in a failure, and the reason is the one of
\* that failure alone; a GET request is issued only after a HEAD request that
\* ended in 405 or in a failure, a sleep and so a further attempt only after a
\* GET request that ended in a failure, so each of the 1 + retries attempts had
\* such a HEAD and such a GET.
C19_AbsentStatus ==
    [][\A u \in Keys :
        /\ ReturnsNone(u)
              => /\ GetEnds(u)
                 /\ last'[u].exc \in ExcKinds
                 /\ frame[u].attempt = retries
                 /\ frame[u].heads = 1 + retries
                 /\ frame[u].gets = 1 + retries
                 /\ frame[u].sleeps = retries
                 /\ outcome'[u][2] = ReasonOfFailure(last'[u].exc)
        /\ (pc[u] # "get" /\ pc'[u] = "get")
              => /\ HeadEnds(u)
                 /\ \/ last'[u].exc \in ExcKinds
                    \/ IsResponse(last'[u]) /\ last'[u].status = 405
                 /\ frame'[u].gets = frame[u].heads
        /\ (pc[u] # "sleep" /\ pc'[u] = "sleep")
              => /\ GetEnds(u)
                 /\ last'[u].exc \in ExcKinds
                 /\ frame'[u].sleeps = frame[u].gets
        /\ (pc[u] # "head" /\ pc'[u] = "head")
              => /\ pc[u] \in {"start", "sleep"}
                 /\ frame'[u].heads = frame[u].sleeps + 1
      ]_vars

\* C19 witness: with MaxRetries retries the probe has returned
\* (None, "Connection failed") when its last GET request failed to connect
C19_Witness ==
    \E u \in Keys :
        /\ retries = MaxRetries
        /\ pc[u] = "done"
        /\ outcome[u] = <<None, "Connection failed">>
        /\ last[u] = Failure("ClientConnectorError")
        /\ nAcq[u] = 1 /\ nRel[u] = 1


\* the requests outstanding over the urls of S
RECURSIVE Outstanding(_)
Outstanding(S) ==
    IF S = {} THEN 0
    ELSE LET u == CHOOSE x \in S : TRUE
         IN frame[u].open + Outstanding(S \ {u})

\* C20: a probe has at most one request outstanding, exactly while it is in
\* its HEAD or its GET request: the HEAD request is over before the GET
\* request starts, a GET request is over before the sleep and the next
\* attempt; over all urls at most CONCURRENCY requests are outstanding.
C20_OneRequestPerProbe ==
    /\ \A u \in Keys :
          /\ frame[u].open \in {0, 1}
          /\ frame[u].open = 1 <=> pc[u] \in {"head", "get"}
          /\ frame[u].open = 1 => u \in InFlight
    /\ Outstanding(Keys) <= CONCURRENCY

\* C20 witness: every permit is in use by a request, one of them the GET
\* request of a probe whose HEAD request is over, while a probe waits
C20_Witness ==
    /\ Outstanding(Keys) = CONCURRENCY
    /\ \E u \in Keys : pc[u] = "get" /\ frame[u].open = 1 /\ last[u].exc # NoExc
    /\ \E v \in Keys : pc[v] = "start"

====
